---- MODULE Spec2Model ----
(***************************************************************************)
(* Model of the domain core of file-service.                               *)
(*                                                                         *)
(* Spec: the File entity (src/domain/entities/file.ts), its status enum    *)
(* and the two transition errors.  A state holds the File instances that   *)
(* exist in memory, the identifiers uuidv4 has already handed out, and the *)
(* outcome of the most recent call (returned value or thrown error).       *)
(*                                                                         *)
(* SpecValueObjects: construction of FileMetadata and FileLocation, with   *)
(* strings as character sequences and numbers as integers or NaN.          *)
(*                                                                         *)
(* SpecCompare: comparison of two instances of each value object.          *)
(***************************************************************************)
EXTENDS Integers, Sequences, FiniteSets, TLC

(* ------------------------------------------------------------------ *)
(* Bounds                                                              *)
(* ------------------------------------------------------------------ *)

\* number of File instances alive in one behaviour
MaxFiles == 2

\* number of successful transitions counted on one instance
MaxCounted == 4

(* ------------------------------------------------------------------ *)
(* FileStatus                                                          *)
(* ------------------------------------------------------------------ *)

PENDING == "PENDING"
UPLOADED == "UPLOADED"
DELETED == "DELETED"

FileStatus == {PENDING, UPLOADED, DELETED}

(* ------------------------------------------------------------------ *)
(* Inputs: identifiers and already-validated value objects             *)
(* ------------------------------------------------------------------ *)

\* values uuidv4() can return; each is returned at most once
UUIDPool == {"uuid-1", "uuid-2"}

\* identifiers of records persisted by an earlier process
ExternalIds == {"existing-uuid"}

\* FileMetadata instances that passed validate(); File never looks inside
\* fileName, fileSize or mimeType, so they are written here as atoms
MetadataPool ==
    { [fileName |-> "photo.jpg", fileSize |-> 1024000, mimeType |-> "image/jpeg",
       ownerId |-> "user-123", uploadedAt |-> 1],
      [fileName |-> "doc.pdf", fileSize |-> 5242880, mimeType |-> "application/pdf",
       ownerId |-> "user-456", uploadedAt |-> 2] }

\* FileLocation instances that passed validate()
LocationPool ==
    { [container |-> "my-bucket", path |-> "uploads/user-123/photo.jpg"],
      [container |-> "my-bucket", path |-> "uploads/user-456/doc.pdf"] }

(* ------------------------------------------------------------------ *)
(* Errors                                                              *)
(* ------------------------------------------------------------------ *)

\* the call returned normally
NoError == [name |-> "none", fileId |-> ""]

\* variant: the constructor forgets to store the identifier
FileAlreadyUploadedError_dropsId(fileId) ==
    [name |-> "FileAlreadyUploadedError", fileId |-> ""]

FileAlreadyUploadedError(fileId) ==
    [name |-> "FileAlreadyUploadedError", fileId |-> fileId]

FileAlreadyDeletedError(fileId) ==
    [name |-> "FileAlreadyDeletedError", fileId |-> fileId]

(* ------------------------------------------------------------------ *)
(* File: constructor, factories, transitions, queries                  *)
(* ------------------------------------------------------------------ *)

File(id, metadata, location, status) ==
    [id |-> id, metadata |-> metadata, location |-> location, _status |-> status]

\* variant: the identifier is derived from the owner instead of uuidv4()
create_idFromOwner(id, metadata, location) ==
    File(metadata.ownerId, metadata, location, PENDING)

\* variant: the new upload intent is born already confirmed
create_uploaded(id, metadata, location) ==
    File(id, metadata, location, UPLOADED)

create(id, metadata, location) ==
    File(id, metadata, location, PENDING)

\* variant: the persisted status is ignored and the lifecycle restarts
reconstitute_resetsStatus(id, metadata, location, status) ==
    File(id, metadata, location, PENDING)

reconstitute(id, metadata, location, status) ==
    File(id, metadata, location, status)

\* A transition yields the instance after the call and the error thrown, if any.

\* variant: the DELETED guard is missing
markAsUploaded_noDeletedGuard(f) ==
    IF f._status = UPLOADED
      THEN [file |-> f, error |-> FileAlreadyUploadedError(f.id)]
    ELSE [file |-> [f EXCEPT !._status = UPLOADED], error |-> NoError]

\* variant: the assignment is missing
markAsUploaded_noAssign(f) ==
    IF f._status = UPLOADED
      THEN [file |-> f, error |-> FileAlreadyUploadedError(f.id)]
    ELSE IF f._status = DELETED
      THEN [file |-> f, error |-> FileAlreadyDeletedError(f.id)]
    ELSE [file |-> f, error |-> NoError]

\* variant: the assignment is made before the guards run
markAsUploaded_assignFirst(f) ==
    IF f._status = UPLOADED
      THEN [file |-> [f EXCEPT !._status = UPLOADED],
            error |-> FileAlreadyUploadedError(f.id)]
    ELSE IF f._status = DELETED
      THEN [file |-> [f EXCEPT !._status = UPLOADED],
            error |-> FileAlreadyDeletedError(f.id)]
    ELSE [file |-> [f EXCEPT !._status = UPLOADED], error |-> NoError]

\* variant: a second call toggles the upload mark off instead of throwing
markAsUploaded_toggle(f) ==
    IF f._status = UPLOADED
      THEN [file |-> [f EXCEPT !._status = PENDING], error |-> NoError]
    ELSE IF f._status = DELETED
      THEN [file |-> f, error |-> FileAlreadyDeletedError(f.id)]
    ELSE [file |-> [f EXCEPT !._status = UPLOADED], error |-> NoError]

\* variant: the UPLOADED guard is missing
markAsUploaded_noUploadedGuard(f) ==
    IF f._status = DELETED
      THEN [file |-> f, error |-> FileAlreadyDeletedError(f.id)]
    ELSE [file |-> [f EXCEPT !._status = UPLOADED], error |-> NoError]

markAsUploaded(f) ==
    IF f._status = UPLOADED
      THEN [file |-> f, error |-> FileAlreadyUploadedError(f.id)]
    ELSE IF f._status = DELETED
      THEN [file |-> f, error |-> FileAlreadyDeletedError(f.id)]
    ELSE [file |-> [f EXCEPT !._status = UPLOADED], error |-> NoError]

\* variant: only an uploaded file may be deleted
markAsDeleted_onlyUploaded(f) ==
    IF f._status # UPLOADED
      THEN [file |-> f, error |-> FileAlreadyDeletedError(f.id)]
    ELSE [file |-> [f EXCEPT !._status = DELETED], error |-> NoError]

\* variant: deleting twice is silently accepted
markAsDeleted_idempotent(f) ==
    [file |-> [f EXCEPT !._status = DELETED], error |-> NoError]

\* variant: the soft delete also blanks the storage address
markAsDeleted_clearsLocation(f) ==
    IF f._status = DELETED
      THEN [file |-> f, error |-> FileAlreadyDeletedError(f.id)]
    ELSE [file |-> [f EXCEPT !._status = DELETED,
                             !.location = [container |-> "", path |-> ""]],
          error |-> NoError]

markAsDeleted(f) ==
    IF f._status = DELETED
      THEN [file |-> f, error |-> FileAlreadyDeletedError(f.id)]
    ELSE [file |-> [f EXCEPT !._status = DELETED], error |-> NoError]

\* the absent argument (null or undefined) of equals
Null == [null |-> TRUE]

\* variant: entities are compared field by field, like value objects
equals_byValue(this, other) ==
    IF other = Null THEN FALSE ELSE this = other

equals(this, other) ==
    IF other = Null THEN FALSE ELSE this.id = other.id

\* Date.prototype.toISOString for the instants of MetadataPool
\* (milliseconds after the epoch, below one second)
toISOString(ms) ==
    "1970-01-01T00:00:00."
      \o (IF ms < 10 THEN "00" ELSE IF ms < 100 THEN "0" ELSE "")
      \o ToString(ms) \o "Z"

\* variant: the view reports the initial status instead of the current one
toObject_forgetsStatus(f) ==
    [id |-> f.id,
     fileName |-> f.metadata.fileName,
     fileSize |-> f.metadata.fileSize,
     mimeType |-> f.metadata.mimeType,
     ownerId |-> f.metadata.ownerId,
     container |-> f.location.container,
     path |-> f.location.path,
     status |-> PENDING,
     uploadedAt |-> toISOString(f.metadata.uploadedAt)]

toObject(f) ==
    [id |-> f.id,
     fileName |-> f.metadata.fileName,
     fileSize |-> f.metadata.fileSize,
     mimeType |-> f.metadata.mimeType,
     ownerId |-> f.metadata.ownerId,
     container |-> f.location.container,
     path |-> f.location.path,
     status |-> f._status,
     uploadedAt |-> toISOString(f.metadata.uploadedAt)]

\* variant: everything that is not deleted counts as downloadable
canBeDownloaded_notDeleted(f) ==
    f._status # DELETED

canBeDownloaded(f) ==
    f._status = UPLOADED

(* ------------------------------------------------------------------ *)
(* Strings and numbers of the value objects                            *)
(* ------------------------------------------------------------------ *)

\* A string is the sequence of its characters; NUL is the null byte.
NUL == "\\0"

\* the characters String.prototype.trim removes
WhiteSpace == {" ", "\t", "\n"}

\* String.prototype.trim: what lies between the first and the last character
\* that is not white space
trim(s) ==
    LET kept == {i \in DOMAIN s : s[i] \notin WhiteSpace} IN
      IF kept = {} THEN <<>>
      ELSE SubSeq(s, CHOOSE i \in kept : \A k \in kept : i <= k,
                     CHOOSE j \in kept : \A k \in kept : k <= j)

includes(s, sub) ==
    \E i \in 1..(Len(s) - Len(sub) + 1) : SubSeq(s, i, i + Len(sub) - 1) = sub

startsWith(s, prefix) ==
    /\ Len(prefix) <= Len(s)
    /\ SubSeq(s, 1, Len(prefix)) = prefix

\* Array.prototype.includes
arrayIncludes(array, x) ==
    \E i \in DOMAIN array : array[i] = x

\* A number is an integer or NaN; every ordering comparison with NaN is false.
Num(v) == [nan |-> FALSE, v |-> v]

NaN == [nan |-> TRUE, v |-> 0]

LessOrEqual(a, b) ==
    ~a.nan /\ ~b.nan /\ a.v <= b.v

Greater(a, b) ==
    ~a.nan /\ ~b.nan /\ a.v > b.v

\* n copies of the character c
Repeat(c, n) ==
    [i \in 1..n |-> c]

(* ------------------------------------------------------------------ *)
(* Errors of the value objects                                         *)
(* ------------------------------------------------------------------ *)

\* the constructor returned normally
NoThrow == [name |-> "none"]

FileSizeExceededError(fileSize, maxSize) ==
    [name |-> "FileSizeExceededError", fileSize |-> fileSize, maxSize |-> maxSize]

InvalidFileTypeError(mimeType, allowedTypes) ==
    [name |-> "InvalidFileTypeError", mimeType |-> mimeType, allowedTypes |-> allowedTypes]

InvalidFileNameError(message) ==
    [name |-> "InvalidFileNameError", message |-> message]

InvalidFileLocationError(message) ==
    [name |-> "InvalidFileLocationError", message |-> message]

(* ------------------------------------------------------------------ *)
(* FileMetadata                                                        *)
(* ------------------------------------------------------------------ *)

MAX_FILE_SIZE == Num(10 * 1024 * 1024)

MAX_FILE_NAME_LENGTH == 255

IMAGE_JPEG == <<"i", "m", "a", "g", "e", "/", "j", "p", "e", "g">>
IMAGE_PNG == <<"i", "m", "a", "g", "e", "/", "p", "n", "g">>
APPLICATION_PDF == <<"a", "p", "p", "l", "i", "c", "a", "t", "i", "o", "n", "/", "p", "d", "f">>

\* variant: text/plain is allowed too
ALLOWED_TYPES_withText ==
    <<IMAGE_JPEG, IMAGE_PNG, APPLICATION_PDF,
      <<"t", "e", "x", "t", "/", "p", "l", "a", "i", "n">>>>

ALLOWED_TYPES == <<IMAGE_JPEG, IMAGE_PNG, APPLICATION_PDF>>

\* Each validation yields the error it throws, or NoThrow.

\* variant: an empty file is let through (< instead of <=)
validateFileSize_zeroAllowed(this) ==
    IF ~this.fileSize.nan /\ this.fileSize.v < 0
      THEN FileSizeExceededError(this.fileSize, MAX_FILE_SIZE)
    ELSE IF Greater(this.fileSize, MAX_FILE_SIZE)
      THEN FileSizeExceededError(this.fileSize, MAX_FILE_SIZE)
    ELSE NoThrow

validateFileSize(this) ==
    IF LessOrEqual(this.fileSize, Num(0))
      THEN FileSizeExceededError(this.fileSize, MAX_FILE_SIZE)
    ELSE IF Greater(this.fileSize, MAX_FILE_SIZE)
      THEN FileSizeExceededError(this.fileSize, MAX_FILE_SIZE)
    ELSE NoThrow

\* variant: every image type is let through
validateMimeType_anyImage(this) ==
    IF /\ ~arrayIncludes(ALLOWED_TYPES, this.mimeType)
       /\ ~startsWith(this.mimeType, <<"i", "m", "a", "g", "e", "/">>)
      THEN InvalidFileTypeError(this.mimeType, ALLOWED_TYPES)
      ELSE NoThrow

validateMimeType(this) ==
    IF ~arrayIncludes(ALLOWED_TYPES, this.mimeType)
      THEN InvalidFileTypeError(this.mimeType, ALLOWED_TYPES)
      ELSE NoThrow

\* variant: the name is not trimmed before the emptiness test
validateFileName_noTrim(this) ==
    IF this.fileName = <<>>
      THEN InvalidFileNameError("File name cannot be empty")
    ELSE IF Len(this.fileName) > MAX_FILE_NAME_LENGTH
      THEN InvalidFileNameError("File name is too long (max 255 characters)")
    ELSE IF \/ includes(this.fileName, <<".", ".">>)
            \/ includes(this.fileName, <<"/">>)
            \/ includes(this.fileName, <<NUL>>)
      THEN InvalidFileNameError("File name contains invalid characters (../, /, or null byte)")
    ELSE NoThrow

validateFileName(this) ==
    IF this.fileName = <<>> \/ Len(trim(this.fileName)) = 0
      THEN InvalidFileNameError("File name cannot be empty")
    ELSE IF Len(this.fileName) > MAX_FILE_NAME_LENGTH
      THEN InvalidFileNameError("File name is too long (max 255 characters)")
    ELSE IF \/ includes(this.fileName, <<".", ".">>)
            \/ includes(this.fileName, <<"/">>)
            \/ includes(this.fileName, <<NUL>>)
      THEN InvalidFileNameError("File name contains invalid characters (../, /, or null byte)")
    ELSE NoThrow

validate(this) ==
    IF validateFileSize(this) # NoThrow THEN validateFileSize(this)
    ELSE IF validateMimeType(this) # NoThrow THEN validateMimeType(this)
    ELSE validateFileName(this)

\* new FileMetadata(...): the error thrown, and the instance when none is
FileMetadata(fileName, fileSize, mimeType, ownerId, uploadedAt) ==
    LET this == [fileName |-> fileName, fileSize |-> fileSize, mimeType |-> mimeType,
                 ownerId |-> ownerId, uploadedAt |-> uploadedAt]
        error == validate(this)
    IN  [error |-> error, returned |-> IF error = NoThrow THEN <<this>> ELSE <<>>]

(* ------------------------------------------------------------------ *)
(* FileLocation                                                        *)
(* ------------------------------------------------------------------ *)

\* variant: the leading-slash test runs before the traversal test
validateLocation_slashFirst(this) ==
    IF this.container = <<>> \/ Len(trim(this.container)) = 0
      THEN InvalidFileLocationError("Container cannot be empty")
    ELSE IF this.path = <<>> \/ Len(trim(this.path)) = 0
      THEN InvalidFileLocationError("Path cannot be empty")
    ELSE IF startsWith(this.path, <<"/">>)
      THEN InvalidFileLocationError("Path cannot start with \"/\"")
    ELSE IF includes(this.path, <<".", ".">>)
      THEN InvalidFileLocationError("Path cannot contain \"..\" (path traversal attempt)")
    ELSE NoThrow

validateLocation(this) ==
    IF this.container = <<>> \/ Len(trim(this.container)) = 0
      THEN InvalidFileLocationError("Container cannot be empty")
    ELSE IF this.path = <<>> \/ Len(trim(this.path)) = 0
      THEN InvalidFileLocationError("Path cannot be empty")
    ELSE IF includes(this.path, <<".", ".">>)
      THEN InvalidFileLocationError("Path cannot contain \"..\" (path traversal attempt)")
    ELSE IF startsWith(this.path, <<"/">>)
      THEN InvalidFileLocationError("Path cannot start with \"/\"")
    ELSE NoThrow

\* new FileLocation(...): the error thrown, and the instance when none is
FileLocation(container, path) ==
    LET this == [container |-> container, path |-> path]
        error == validateLocation(this)
    IN  [error |-> error, returned |-> IF error = NoThrow THEN <<this>> ELSE <<>>]

isImage(this) ==
    startsWith(this.mimeType, <<"i", "m", "a", "g", "e", "/">>)

isPDF(this) ==
    this.mimeType = APPLICATION_PDF

locationEquals(this, other) ==
    /\ this.container = other.container
    /\ this.path = other.path

(* ------------------------------------------------------------------ *)
(* State                                                               *)
(* ------------------------------------------------------------------ *)

VARIABLES
    files,      \* the File instances, in order of construction
    generated,  \* identifiers uuidv4 has returned so far
    created,    \* positions in files of the instances File.create returned
    last,       \* the most recent call: operation, receiver, error, result
    metas,      \* the FileMetadata instances, in order of construction
    locs,       \* the FileLocation instances, in order of construction
    vo,         \* the most recent call on a value object
    store,      \* the persisted record of every identifier, or Null
    succeeded   \* per instance, the successful calls of each transition so far

fileVars == <<files, generated, created, last>>

voVars == <<metas, locs, vo>>

vars == <<files, generated, created, last, metas, locs, vo, store, succeeded>>

\* a call with a second operand: files[other], or null when other = 0
CallOn(op, target, other, error, result) ==
    [op |-> op, target |-> target, other |-> other, error |-> error, result |-> result]

Call(op, target, error, result) ==
    CallOn(op, target, 0, error, result)

NoCall == [op |-> "none"]

InitFile ==
    /\ files = <<>>
    /\ generated = {}
    /\ created = {}
    /\ last = Call("none", 0, NoError, FALSE)

InitValueObjects ==
    /\ metas = <<>>
    /\ locs = <<>>
    /\ vo = NoCall

\* every identifier the model uses
Ids == UUIDPool \cup ExternalIds

\* nothing is persisted
EmptyStore == [id \in Ids |-> Null]

\* no transition has succeeded on any instance
NoneSucceeded == [i \in 1..MaxFiles |-> [markAsUploaded |-> 0, markAsDeleted |-> 0]]

Init ==
    /\ InitFile
    /\ InitValueObjects
    /\ store = EmptyStore
    /\ succeeded = NoneSucceeded

(* ------------------------------------------------------------------ *)
(* Actions                                                             *)
(* ------------------------------------------------------------------ *)

Create ==
    /\ Len(files) < MaxFiles
    /\ \E id \in UUIDPool \ generated, metadata \in MetadataPool, location \in LocationPool :
         /\ files' = Append(files, create(id, metadata, location))
         /\ generated' = generated \cup {id}
         /\ created' = created \cup {Len(files) + 1}
         /\ last' = Call("create", Len(files) + 1, NoError, FALSE)
    /\ UNCHANGED <<voVars, store, succeeded>>

Reconstitute ==
    /\ Len(files) < MaxFiles
    /\ \E id \in generated \cup ExternalIds, metadata \in MetadataPool,
          location \in LocationPool, status \in FileStatus :
         /\ files' = Append(files, reconstitute(id, metadata, location, status))
         /\ last' = Call("reconstitute", Len(files) + 1, NoError, FALSE)
    /\ UNCHANGED <<generated, created, voVars, store, succeeded>>

MarkAsUploaded ==
    /\ \E i \in DOMAIN files :
         LET r == markAsUploaded(files[i]) IN
           /\ files' = [files EXCEPT ![i] = r.file]
           /\ last' = Call("markAsUploaded", i, r.error, FALSE)
    /\ UNCHANGED <<generated, created, voVars, store, succeeded>>

MarkAsDeleted ==
    /\ \E i \in DOMAIN files :
         LET r == markAsDeleted(files[i]) IN
           /\ files' = [files EXCEPT ![i] = r.file]
           /\ last' = Call("markAsDeleted", i, r.error, FALSE)
    /\ UNCHANGED <<generated, created, voVars, store, succeeded>>

CanBeDownloaded ==
    /\ \E i \in DOMAIN files :
         last' = Call("canBeDownloaded", i, NoError, canBeDownloaded(files[i]))
    /\ UNCHANGED <<files, generated, created, voVars, store, succeeded>>

\* a.equals(b) on two instances, or a.equals(null) when j = 0
Equals ==
    /\ \E i \in DOMAIN files, j \in DOMAIN files \cup {0} :
         LET other == IF j = 0 THEN Null ELSE files[j] IN
           last' = CallOn("equals", i, j, NoError, equals(files[i], other))
    /\ UNCHANGED <<files, generated, created, voVars, store, succeeded>>

\* File.reconstitute fed with the id and status of files[i].toObject() and
\* with its metadata and location
Rehydrate ==
    /\ Len(files) < MaxFiles
    /\ \E i \in DOMAIN files :
         LET o == toObject(files[i]) IN
           /\ files' = Append(files,
                 reconstitute(o.id, files[i].metadata, files[i].location, o.status))
           /\ last' = CallOn("rehydrate", Len(files) + 1, i, NoError, FALSE)
    /\ UNCHANGED <<generated, created, voVars, store, succeeded>>

Next ==
    \/ Create
    \/ Reconstitute
    \/ MarkAsUploaded
    \/ MarkAsDeleted
    \/ CanBeDownloaded
    \/ Equals
    \/ Rehydrate

Spec == Init /\ [][Next]_vars

(* ------------------------------------------------------------------ *)
(* Value objects: constructor arguments                                *)
(* ------------------------------------------------------------------ *)

TEXT_PLAIN == <<"t", "e", "x", "t", "/", "p", "l", "a", "i", "n">>
IMAGE_GIF == <<"i", "m", "a", "g", "e", "/", "g", "i", "f">>

PHOTO_JPG == <<"p", "h", "o", "t", "o", ".", "j", "p", "g">>

FileSizes ==
    {NaN, Num(-1), Num(0), Num(1), MAX_FILE_SIZE, Num(MAX_FILE_SIZE.v + 1)}

MimeTypes ==
    {IMAGE_JPEG, IMAGE_PNG, APPLICATION_PDF, TEXT_PLAIN, IMAGE_GIF}

FileNames ==
    { PHOTO_JPG,
      Repeat("a", MAX_FILE_NAME_LENGTH),
      <<>>,
      <<" ", "\t">>,
      Repeat("a", MAX_FILE_NAME_LENGTH + 1),
      Repeat(" ", MAX_FILE_NAME_LENGTH + 1),
      <<"a", ".", ".", "b">>,
      <<"a", "/", "b">>,
      <<"a", NUL, "b">> }

OwnerIds == {"user-123"}

\* values of new Date()
Instants == {1}

Containers ==
    { <<"m", "y", "-", "b", "u", "c", "k", "e", "t">>, <<>>, <<" ">> }

Paths ==
    { <<"u", "p", "l", "o", "a", "d", "s", "/", "a", ".", "j", "p", "g">>,
      <<"a", ".", "j", "p", "g">>,
      <<>>,
      <<" ", " ">>,
      <<"a", "/", ".", ".", "/", "b">>,
      <<"/", "a">>,
      <<"/", ".", ".">> }

(* ------------------------------------------------------------------ *)
(* Value objects: construction                                         *)
(* ------------------------------------------------------------------ *)

\* a call on a value object: its arguments, the error thrown, the instance
\* returned (none when the constructor throws) and the value returned
VoCall(op, args, error, returned, result) ==
    [op |-> op, args |-> args, error |-> error, returned |-> returned,
     result |-> result]

NewFileMetadata ==
    /\ \E fileName \in FileNames, fileSize \in FileSizes, mimeType \in MimeTypes,
          ownerId \in OwnerIds, uploadedAt \in Instants :
         LET r == FileMetadata(fileName, fileSize, mimeType, ownerId, uploadedAt) IN
           vo' = VoCall("new FileMetadata",
                        [fileName |-> fileName, fileSize |-> fileSize,
                         mimeType |-> mimeType, ownerId |-> ownerId,
                         uploadedAt |-> uploadedAt],
                        r.error, r.returned, FALSE)
    /\ UNCHANGED <<metas, locs, fileVars, store, succeeded>>

NewFileLocation ==
    /\ \E container \in Containers, path \in Paths :
         LET r == FileLocation(container, path) IN
           vo' = VoCall("new FileLocation",
                        [container |-> container, path |-> path],
                        r.error, r.returned, FALSE)
    /\ UNCHANGED <<metas, locs, fileVars, store, succeeded>>

\* the calls after which vo.returned holds a FileMetadata
OnFileMetadata == {"new FileMetadata", "isImage", "isPDF"}

IsImage ==
    /\ vo.op \in OnFileMetadata
    /\ vo.returned # <<>>
    /\ vo' = VoCall("isImage", vo.args, NoThrow, vo.returned,
                    isImage(vo.returned[1]))
    /\ UNCHANGED <<metas, locs, fileVars, store, succeeded>>

IsPDF ==
    /\ vo.op \in OnFileMetadata
    /\ vo.returned # <<>>
    /\ vo' = VoCall("isPDF", vo.args, NoThrow, vo.returned,
                    isPDF(vo.returned[1]))
    /\ UNCHANGED <<metas, locs, fileVars, store, succeeded>>

NextValueObjects ==
    \/ NewFileMetadata
    \/ NewFileLocation
    \/ IsImage
    \/ IsPDF

SpecValueObjects == Init /\ [][NextValueObjects]_vars

(* ------------------------------------------------------------------ *)
(* Value objects: comparison                                           *)
(* ------------------------------------------------------------------ *)

\* the members class FileMetadata declares
FileMetadataMembers ==
    {"fileName", "fileSize", "mimeType", "ownerId", "uploadedAt",
     "validate", "validateFileSize", "validateMimeType", "validateFileName",
     "isImage", "isPDF", "getSizeInMB", "getFileExtension"}

\* the members class FileLocation declares
FileLocationMembers ==
    {"container", "path", "validate", "getFullPath", "equals"}

\* calling a member the object does not have
TypeError(message) ==
    [name |-> "TypeError", message |-> message]

\* the instances construction can return
ValidMetadata ==
    { r.returned[1] :
        r \in { q \in { FileMetadata(fileName, fileSize, mimeType, ownerId, uploadedAt) :
                          fileName \in FileNames, fileSize \in FileSizes,
                          mimeType \in MimeTypes, ownerId \in OwnerIds,
                          uploadedAt \in Instants } :
                  q.returned # <<>> } }

ValidLocations ==
    { r.returned[1] :
        r \in { q \in { FileLocation(container, path) :
                          container \in Containers, path \in Paths } :
                  q.returned # <<>> } }

\* two instances of each class exist; equal fields do not make them one object
InitCompare ==
    /\ InitFile
    /\ metas \in {<<a, b>> : a \in ValidMetadata, b \in ValidMetadata}
    /\ locs \in {<<a, b>> : a \in ValidLocations, b \in ValidLocations}
    /\ vo = NoCall
    /\ store = EmptyStore
    /\ succeeded = NoneSucceeded

\* metadata1.equals(metadata2), the comparison the entity's documentation
\* names: FileMetadata declares no such member, so the call throws
MetadataEquals ==
    /\ "equals" \notin FileMetadataMembers
    /\ \E i \in DOMAIN metas, j \in DOMAIN metas :
         vo' = VoCall("FileMetadata.equals", <<i, j>>,
                      TypeError("metadata1.equals is not a function"), <<>>, FALSE)
    /\ UNCHANGED <<metas, locs, fileVars, store, succeeded>>

LocationEquals ==
    /\ "equals" \in FileLocationMembers
    /\ \E i \in DOMAIN locs, j \in DOMAIN locs :
         vo' = VoCall("FileLocation.equals", <<i, j>>, NoThrow, <<>>,
                      locationEquals(locs[i], locs[j]))
    /\ UNCHANGED <<metas, locs, fileVars, store, succeeded>>

NextCompare ==
    \/ MetadataEquals
    \/ LocationEquals

SpecCompare == InitCompare /\ [][NextCompare]_vars

(* ------------------------------------------------------------------ *)
(* Repository: the persistence contract of IFileRepository             *)
(* ------------------------------------------------------------------ *)

FileNotFoundError(fileId) ==
    [name |-> "FileNotFoundError", fileId |-> fileId]

\* the instant an ISO-8601 string written by toISOString denotes
parseISOString(str) ==
    CHOOSE ms \in 0..999 : toISOString(ms) = str

\* the entity a persisted record is rebuilt into
fromItem(item) ==
    reconstitute(item.id,
                 [fileName |-> item.fileName, fileSize |-> item.fileSize,
                  mimeType |-> item.mimeType, ownerId |-> item.ownerId,
                  uploadedAt |-> parseISOString(item.uploadedAt)],
                 [container |-> item.container, path |-> item.path],
                 item.status)

\* upsert by identifier: the serialization view replaces whatever is persisted
save(st, file) ==
    [st EXCEPT ![file.id] = toObject(file)]

\* the matching entity, or Null on a clean miss
findById(st, id) ==
    IF st[id] = Null THEN Null ELSE fromItem(st[id])

\* hard delete, idempotent
delete(st, id) ==
    [st EXCEPT ![id] = Null]

\* targeted status mutation; not-found when the identifier is absent
updateStatus(st, id, status) ==
    IF st[id] = Null
      THEN [store |-> st, error |-> FileNotFoundError(id)]
      ELSE [store |-> [st EXCEPT ![id].status = status], error |-> NoError]

\* records an earlier process may have persisted
PersistedStores ==
    {EmptyStore} \cup
    { [EmptyStore EXCEPT ![id] = toObject(File(id, metadata, location, status))] :
        id \in ExternalIds, metadata \in MetadataPool,
        location \in LocationPool, status \in FileStatus }

InitRepository ==
    /\ InitFile
    /\ InitValueObjects
    /\ store \in PersistedStores
    /\ succeeded = NoneSucceeded

Save ==
    /\ \E i \in DOMAIN files :
         /\ store' = save(store, files[i])
         /\ last' = Call("save", i, NoError, FALSE)
    /\ UNCHANGED <<files, generated, created, voVars, succeeded>>

\* each hit hands the caller an instance of its own
FindById ==
    /\ \E id \in Ids :
         LET found == findById(store, id) IN
           IF found = Null
             THEN /\ last' = Call("findById", 0, NoError, FALSE)
                  /\ UNCHANGED files
             ELSE /\ Len(files) < MaxFiles
                  /\ files' = Append(files, found)
                  /\ last' = Call("findById", Len(files) + 1, NoError, TRUE)
    /\ UNCHANGED <<generated, created, voVars, store, succeeded>>

Delete ==
    /\ \E id \in Ids :
         /\ store' = delete(store, id)
         /\ last' = Call("delete", 0, NoError, FALSE)
    /\ UNCHANGED <<files, generated, created, voVars, succeeded>>

UpdateStatus ==
    /\ \E id \in Ids, status \in FileStatus :
         LET r == updateStatus(store, id, status) IN
           /\ store' = r.store
           /\ last' = Call("updateStatus", 0, r.error, FALSE)
    /\ UNCHANGED <<files, generated, created, voVars, succeeded>>

\* the callers work on records that are already persisted: every instance
\* comes from findById
NextRepository ==
    \/ MarkAsUploaded
    \/ MarkAsDeleted
    \/ Save
    \/ FindById
    \/ Delete
    \/ UpdateStatus

SpecRepository == InitRepository /\ [][NextRepository]_vars

(* ------------------------------------------------------------------ *)
(* File lifecycle with the successful transitions counted              *)
(* ------------------------------------------------------------------ *)

Counted(i) ==
    succeeded[i].markAsUploaded + succeeded[i].markAsDeleted

CountedMarkAsUploaded ==
    /\ \E i \in DOMAIN files :
         LET r == markAsUploaded(files[i]) IN
           /\ Counted(i) < MaxCounted
           /\ files' = [files EXCEPT ![i] = r.file]
           /\ last' = Call("markAsUploaded", i, r.error, FALSE)
           /\ succeeded' = IF r.error = NoError
                             THEN [succeeded EXCEPT ![i].markAsUploaded = @ + 1]
                             ELSE succeeded
    /\ UNCHANGED <<generated, created, voVars, store>>

CountedMarkAsDeleted ==
    /\ \E i \in DOMAIN files :
         LET r == markAsDeleted(files[i]) IN
           /\ Counted(i) < MaxCounted
           /\ files' = [files EXCEPT ![i] = r.file]
           /\ last' = Call("markAsDeleted", i, r.error, FALSE)
           /\ succeeded' = IF r.error = NoError
                             THEN [succeeded EXCEPT ![i].markAsDeleted = @ + 1]
                             ELSE succeeded
    /\ UNCHANGED <<generated, created, voVars, store>>

NextLifecycle ==
    \/ Create
    \/ Reconstitute
    \/ CountedMarkAsUploaded
    \/ CountedMarkAsDeleted

SpecLifecycle == Init /\ [][NextLifecycle]_vars

(* ------------------------------------------------------------------ *)
(* Properties of the File lifecycle                                    *)
(* ------------------------------------------------------------------ *)

Transitions == {"markAsUploaded", "markAsDeleted"}

\* C1: DELETED is terminal.  In every step, an instance whose status is
\* DELETED before the step still has status DELETED after it, whatever call
\* (accepted or rejected) the step makes.
C1_DeletedIsTerminal ==
    [][\A i \in DOMAIN files :
          files[i]._status = DELETED => files'[i]._status = DELETED]_vars

C1_Witness ==
    /\ last.op = "markAsUploaded"
    /\ files[last.target]._status = DELETED

\* C2: markAsUploaded on a PENDING instance throws nothing and leaves the
\* status UPLOADED.
C2_PendingMarkUploaded ==
    [][\A i \in DOMAIN files :
          (files[i]._status = PENDING /\ last'.op = "markAsUploaded" /\ last'.target = i)
            => (last'.error = NoError /\ files'[i]._status = UPLOADED)]_vars

C2_Witness ==
    /\ last.op = "markAsUploaded"
    /\ last.error = NoError
    /\ files[last.target]._status = UPLOADED

\* C3: markAsDeleted on a PENDING or UPLOADED instance throws nothing and
\* leaves the status DELETED.
C3_MarkDeletedFromLive ==
    [][\A i \in DOMAIN files :
          (files[i]._status \in {PENDING, UPLOADED}
             /\ last'.op = "markAsDeleted" /\ last'.target = i)
            => (last'.error = NoError /\ files'[i]._status = DELETED)]_vars

\* a file that was created and never uploaded has just been deleted
C3_Witness ==
    /\ last.op = "markAsDeleted"
    /\ last.error = NoError
    /\ files[last.target]._status = DELETED
    /\ files[last.target].id \in generated
    /\ Len(files) = 1

\* C4: markAsUploaded on an UPLOADED instance is rejected with
\* FileAlreadyUploadedError whose fileId is the id of that instance.
C4_UploadedMarkUploadedRejected ==
    [][\A i \in DOMAIN files :
          (files[i]._status = UPLOADED /\ last'.op = "markAsUploaded" /\ last'.target = i)
            => /\ last'.error.name = "FileAlreadyUploadedError"
               /\ last'.error.fileId = files[i].id]_vars

C4_Witness ==
    /\ last.op = "markAsUploaded"
    /\ last.error.name = "FileAlreadyUploadedError"
    /\ last.error.fileId = files[last.target].id

\* C5: every transition attempted on a DELETED instance, markAsUploaded as
\* well as markAsDeleted, is rejected with FileAlreadyDeletedError (never
\* FileAlreadyUploadedError) whose fileId is the id of that instance.
C5_DeletedRejectsAll ==
    [][\A i \in DOMAIN files :
          (files[i]._status = DELETED /\ last'.op \in Transitions /\ last'.target = i)
            => /\ last'.error.name = "FileAlreadyDeletedError"
               /\ last'.error.fileId = files[i].id]_vars

C5_Witness ==
    /\ last.op = "markAsDeleted"
    /\ last.error = FileAlreadyDeletedError(files[last.target].id)

\* C6: a rejected transition changes nothing: when markAsUploaded or
\* markAsDeleted throws, the receiver's status, id, metadata and location
\* after the call are those before the call.
C6_RejectedChangesNothing ==
    [][(last'.op \in Transitions /\ last'.error # NoError)
          => files'[last'.target] = files[last'.target]]_vars

C6_Witness ==
    /\ last.op \in Transitions
    /\ last.error # NoError

\* C7: no step moves the status of an existing instance to PENDING: an
\* instance that is PENDING after a step was PENDING before it.
C7_NeverBackToPending ==
    [][\A i \in DOMAIN files :
          files'[i]._status = PENDING => files[i]._status = PENDING]_vars

C7_Witness ==
    \E i \in DOMAIN files :
        /\ files[i]._status = UPLOADED
        /\ last.op \in Transitions
        /\ last.target = i

\* C8: canBeDownloaded() is true exactly when the status is UPLOADED, for
\* every instance in every reachable state, and the value a call returned is
\* that of the receiver's status.
C8_CanBeDownloadedIffUploaded ==
    /\ \A i \in DOMAIN files :
          /\ canBeDownloaded(files[i]) <=> files[i]._status = UPLOADED
          /\ files[i]._status \in {PENDING, DELETED} => ~canBeDownloaded(files[i])
    /\ last.op = "canBeDownloaded"
          => (last.result <=> files[last.target]._status = UPLOADED)

C8_Witness ==
    /\ last.op = "canBeDownloaded"
    /\ last.result
    /\ \E j \in DOMAIN files : files[j]._status = DELETED

\* C9: the entity File.create returns has status PENDING right after the
\* call, whatever metadata and location were supplied, and canBeDownloaded()
\* is false on it.
C9_CreateIsPending ==
    last.op = "create"
      => /\ files[last.target]._status = PENDING
         /\ ~canBeDownloaded(files[last.target])

C9_Witness ==
    /\ last.op = "create"
    /\ Len(files) = 2
    /\ files[1].metadata # files[2].metadata
    /\ files[1].location # files[2].location

\* C10: id, metadata and location never change after construction: every
\* step leaves them as they were on every existing instance.
C10_IdentityAndValuesFrozen ==
    [][\A i \in DOMAIN files :
          /\ files'[i].id = files[i].id
          /\ files'[i].metadata = files[i].metadata
          /\ files'[i].location = files[i].location]_vars

C10_Witness ==
    \E i \in DOMAIN files :
        /\ last.target = i
        /\ last.op = "markAsDeleted"
        /\ last.error = NoError
        /\ files[i].id \in generated
        /\ files[i].location \in LocationPool

(* ------------------------------------------------------------------ *)
(* Properties of identity, equality and the serialization view         *)
(* ------------------------------------------------------------------ *)

\* C11: any two entities returned by two distinct File.create calls have
\* different ids, even when both calls received the same metadata and
\* location, so neither equals the other.
C11_CreatedIdsDistinct ==
    \A i \in created : \A j \in created :
        i # j => /\ files[i].id # files[j].id
                 /\ ~equals(files[i], files[j])

C11_Witness ==
    /\ created = {1, 2}
    /\ files[1].metadata = files[2].metadata
    /\ files[1].location = files[2].location

\* C12: a.equals(b) is true exactly when a.id = b.id, whatever the status,
\* metadata and location of the two instances, and no step changes the
\* result of equals on two existing instances.
C12_EqualsIffSameId ==
    /\ [](/\ \A i \in DOMAIN files : \A j \in DOMAIN files :
               equals(files[i], files[j]) <=> files[i].id = files[j].id
          /\ (last.op = "equals" /\ last.other # 0)
               => (last.result <=> files[last.target].id = files[last.other].id))
    /\ [][\A i \in DOMAIN files : \A j \in DOMAIN files :
             equals(files'[i], files'[j]) <=> equals(files[i], files[j])]_vars

C12_Witness ==
    /\ last.op = "equals"
    /\ last.other # 0
    /\ last.result
    /\ files[last.target]._status # files[last.other]._status
    /\ files[last.target].metadata # files[last.other].metadata
    /\ files[last.target].location # files[last.other].location

\* C13: round trip through the serialization view: File.reconstitute called
\* with the id and status of an entity's toObject(), and with its metadata
\* and location, yields an entity that equals the original and has exactly
\* the original's status.
C13_RoundTrip ==
    last.op = "rehydrate"
      => /\ equals(files[last.target], files[last.other])
         /\ equals(files[last.other], files[last.target])
         /\ files[last.target]._status = files[last.other]._status

C13_Witness ==
    /\ last.op = "rehydrate"
    /\ files[last.other]._status = DELETED
    /\ last.other \in created

(* ------------------------------------------------------------------ *)
(* Properties of value-object construction                             *)
(* ------------------------------------------------------------------ *)

\* The rules of the specification, stated on the characters of a string.
IsBlank(s) ==
    \A i \in DOMAIN s : s[i] \in WhiteSpace

HasDotDot(s) ==
    \E i \in 1..(Len(s) - 1) : s[i] = "." /\ s[i + 1] = "."

HasChar(s, c) ==
    \E i \in DOMAIN s : s[i] = c

SizeInRange(n) ==
    ~n.nan /\ 0 < n.v /\ n.v <= 10485760

TypeAllowed(t) ==
    t \in {IMAGE_JPEG, IMAGE_PNG, APPLICATION_PDF}

NameValid(s) ==
    /\ ~IsBlank(s)
    /\ Len(s) <= 255
    /\ ~HasDotDot(s)
    /\ ~HasChar(s, "/")
    /\ ~HasChar(s, NUL)

LocationValid(l) ==
    /\ ~IsBlank(l.container)
    /\ ~IsBlank(l.path)
    /\ ~HasDotDot(l.path)
    /\ ~(l.path # <<>> /\ l.path[1] = "/")

MetadataValid(m) ==
    /\ SizeInRange(m.fileSize)
    /\ TypeAllowed(m.mimeType)
    /\ NameValid(m.fileName)

\* C14: no invalid value object exists: every FileMetadata a construction
\* returns has 0 < fileSize <= 10,485,760, an allowed mimeType and a valid
\* file name, every FileLocation returned satisfies the location rules, and a
\* construction that violates a rule throws and returns no instance.
C14_NoInvalidValueObject ==
    /\ vo.op = "new FileMetadata"
         => /\ \A i \in DOMAIN vo.returned : MetadataValid(vo.returned[i])
            /\ ~MetadataValid(vo.args) => (vo.error # NoThrow /\ vo.returned = <<>>)
    /\ vo.op = "new FileLocation"
         => /\ \A i \in DOMAIN vo.returned : LocationValid(vo.returned[i])
            /\ ~LocationValid(vo.args) => (vo.error # NoThrow /\ vo.returned = <<>>)

\* C15: for every fileSize <= 0 or > 10,485,760, whatever the other
\* arguments, construction throws FileSizeExceededError carrying exactly that
\* size and the limit 10,485,760, and returns no instance.
C15_SizeViolation ==
    (/\ vo.op = "new FileMetadata"
     /\ ~vo.args.fileSize.nan
     /\ (vo.args.fileSize.v <= 0 \/ vo.args.fileSize.v > 10485760))
      => /\ vo.error = [name |-> "FileSizeExceededError",
                        fileSize |-> vo.args.fileSize,
                        maxSize |-> Num(10485760)]
         /\ vo.returned = <<>>

\* a zero size is rejected although type and name are invalid too
C15_Witness ==
    /\ vo.op = "new FileMetadata"
    /\ vo.args.fileSize = Num(0)
    /\ ~TypeAllowed(vo.args.mimeType)
    /\ ~NameValid(vo.args.fileName)
    /\ vo.error.name = "FileSizeExceededError"

\* C16: for every mimeType outside the allow-list, with a valid fileSize,
\* construction throws InvalidFileTypeError carrying that mimeType and the
\* three-element allow-list.
C16_TypeViolation ==
    (/\ vo.op = "new FileMetadata"
     /\ SizeInRange(vo.args.fileSize)
     /\ ~TypeAllowed(vo.args.mimeType))
      => /\ vo.error = [name |-> "InvalidFileTypeError",
                        mimeType |-> vo.args.mimeType,
                        allowedTypes |-> <<IMAGE_JPEG, IMAGE_PNG, APPLICATION_PDF>>]
         /\ vo.returned = <<>>

C16_Witness ==
    /\ vo.op = "new FileMetadata"
    /\ vo.args.mimeType = IMAGE_GIF
    /\ vo.error.name = "InvalidFileTypeError"
    /\ Len(vo.error.allowedTypes) = 3

\* C17: for every file name that is empty or all white space, longer than
\* 255 characters, or contains "..", "/" or a null byte, with a valid size
\* and type, construction throws InvalidFileNameError.
C17_NameViolation ==
    (/\ vo.op = "new FileMetadata"
     /\ SizeInRange(vo.args.fileSize)
     /\ TypeAllowed(vo.args.mimeType)
     /\ ~NameValid(vo.args.fileName))
      => /\ vo.error.name = "InvalidFileNameError"
         /\ vo.returned = <<>>

C17_Witness ==
    /\ vo.op = "new FileMetadata"
    /\ vo.error.name = "InvalidFileNameError"
    /\ vo.args.fileName # <<>>
    /\ IsBlank(vo.args.fileName)
    /\ Len(vo.args.fileName) < 255

\* the reason of the first failing location rule, in the order container,
\* path emptiness, traversal, leading slash
FirstLocationReason(l) ==
    IF IsBlank(l.container) THEN "Container cannot be empty"
    ELSE IF IsBlank(l.path) THEN "Path cannot be empty"
    ELSE IF HasDotDot(l.path) THEN "Path cannot contain \"..\" (path traversal attempt)"
    ELSE "Path cannot start with \"/\""

\* C18: a FileLocation construction with a blank container, a blank path, a
\* path containing ".." or a path starting with "/" throws
\* InvalidFileLocationError, and its reason is that of the first failing rule
\* in the order container, path emptiness, traversal, leading slash.
C18_LocationViolation ==
    (vo.op = "new FileLocation" /\ ~LocationValid(vo.args))
      => /\ vo.error = [name |-> "InvalidFileLocationError",
                        message |-> FirstLocationReason(vo.args)]
         /\ vo.returned = <<>>

\* a path that both starts with "/" and contains ".." reports the traversal
C18_Witness ==
    /\ vo.op = "new FileLocation"
    /\ vo.args.path = <<"/", ".", ".">>
    /\ ~IsBlank(vo.args.container)
    /\ vo.error.name = "InvalidFileLocationError"

\* C19: FileMetadata validation is ordered size, then type, then name:
\* construction throws a size violation if the size is invalid, otherwise a
\* type violation if the type is invalid, otherwise a name violation if the
\* name is invalid.
C19_ValidationOrder ==
    vo.op = "new FileMetadata"
      => vo.error.name =
           IF ~SizeInRange(vo.args.fileSize) THEN "FileSizeExceededError"
           ELSE IF ~TypeAllowed(vo.args.mimeType) THEN "InvalidFileTypeError"
           ELSE IF ~NameValid(vo.args.fileName) THEN "InvalidFileNameError"
           ELSE "none"

\* C20: FileMetadata instances are compared by full field equality, not by
\* identity: the comparison the value object offers is true exactly for
\* instances whose fields are all equal, as FileLocation.equals is for
\* container and path.
C20_MetadataFieldEquality ==
    /\ vo.op = "FileMetadata.equals"
         => /\ vo.error = NoThrow
            /\ vo.result <=> metas[vo.args[1]] = metas[vo.args[2]]
    /\ vo.op = "FileLocation.equals"
         => /\ vo.error = NoThrow
            /\ vo.result <=> locs[vo.args[1]] = locs[vo.args[2]]

(* ------------------------------------------------------------------ *)
(* Properties of the persistence boundary                              *)
(* ------------------------------------------------------------------ *)

\* C21: last writer wins: every save, whatever is persisted under the
\* identifier at that moment, leaves the serialization view of the saved
\* instance there, so the persisted status is that of the instance saved
\* last; the records of the other identifiers are untouched.
C21_LastWriterWins ==
    [][\A i \in DOMAIN files :
          (last'.op = "save" /\ last'.target = i)
            => /\ store'[files[i].id] = toObject(files[i])
               /\ store'[files[i].id].status = files[i]._status
               /\ \A id \in Ids \ {files[i].id} : store'[id] = store[id]]_vars

\* two callers hold the same identifier, one marked it deleted, the other
\* marked it uploaded and saved last: UPLOADED is what is persisted
C21_Witness ==
    /\ last.op = "save"
    /\ files[last.target]._status = UPLOADED
    /\ store[files[last.target].id] # Null
    /\ store[files[last.target].id].status = UPLOADED
    /\ \E j \in DOMAIN files :
         /\ j # last.target
         /\ files[j].id = files[last.target].id
         /\ files[j]._status = DELETED

(* ------------------------------------------------------------------ *)
(* Properties of status progress                                       *)
(* ------------------------------------------------------------------ *)

\* the order PENDING < UPLOADED < DELETED
Rank(status) ==
    IF status = PENDING THEN 0 ELSE IF status = UPLOADED THEN 1 ELSE 2

\* C22: status progress is monotone and bounded: every successful transition
\* strictly increases the status in the order PENDING < UPLOADED < DELETED,
\* and on one instance at most one markAsUploaded and at most one
\* markAsDeleted succeed, so at most two transitions in all.
C22_MonotoneBounded ==
    /\ [](\A i \in DOMAIN files :
             /\ succeeded[i].markAsUploaded <= 1
             /\ succeeded[i].markAsDeleted <= 1
             /\ Counted(i) <= 2)
    /\ [][\A i \in DOMAIN files :
             (last'.op \in Transitions /\ last'.target = i /\ last'.error = NoError)
               => Rank(files'[i]._status) > Rank(files[i]._status)]_vars

\* both transitions have succeeded on an instance and a further call was rejected
C22_Witness ==
    /\ last.op \in Transitions
    /\ last.error # NoError
    /\ succeeded[last.target].markAsUploaded = 1
    /\ succeeded[last.target].markAsDeleted = 1

(* ------------------------------------------------------------------ *)
(* Properties of the FileMetadata queries                              *)
(* ------------------------------------------------------------------ *)

\* C23: for every FileMetadata that construction returns, exactly one of
\* isImage() and isPDF() is true: isImage() holds for image/jpeg and
\* image/png, isPDF() for application/pdf, and never both or neither.
C23_ImageXorPDF ==
    /\ vo.op \in OnFileMetadata
         => \A i \in DOMAIN vo.returned :
              /\ isImage(vo.returned[i]) # isPDF(vo.returned[i])
              /\ isImage(vo.returned[i])
                   <=> vo.returned[i].mimeType \in {IMAGE_JPEG, IMAGE_PNG}
              /\ isPDF(vo.returned[i])
                   <=> vo.returned[i].mimeType = APPLICATION_PDF
    /\ vo.op = "isImage" => vo.result = ~isPDF(vo.returned[1])
    /\ vo.op = "isPDF" => vo.result = ~isImage(vo.returned[1])

\* isPDF() answered true on a returned application/pdf instance
C23_Witness ==
    /\ vo.op = "isPDF"
    /\ vo.result
    /\ vo.returned[1].mimeType = APPLICATION_PDF
    /\ ~isImage(vo.returned[1])

====
